---- MODULE Spec2Model ----
(***************************************************************************)
(* Model of bot/exts/fun/latex/_latex_cog.py: the latex command, its       *)
(* input normalisation, the on-disk image cache, the two calls to the      *)
(* rendering API, the paste upload and the per-guild concurrency gate.     *)
(*                                                                         *)
(* Texts are sequences of one-character strings.  A cache file is modelled *)
(* as a directory entry cache[k] naming an inode (0 = no entry) and the    *)
(* inode's content; an inode is named after the invocation that created    *)
(* it with open(image_path, "wb").                                         *)
(***************************************************************************)
EXTENDS Integers, Sequences, FiniteSets, TLC

\* ------------------------------------------------------------------ bounds
MaxInv == 3
MaxLen == 6
MaxExternal == 1

\* ------------------------------------------------------- FORMATTED_CODE_REGEX
\* the backtick (U+0060), which a TLA+ string cannot hold, is written "'"
BT == "'"
NL == "\n"
SP == " "
Letters == {"a", "A"}
Alphabet == {BT, NL, SP, "a", "1"}

\* [a-z] under re.IGNORECASE
IsLetter(c) == c \in Letters
\* \s
IsSpace(c) == c \in {SP, NL, "\t", "\r"}
\* [ \t]
IsBlank(c) == c \in {SP, "\t"}

Delim(d) == [i \in 1..d |-> BT]

\* the literal lit occurs in text at position p
LitAt(text, p, lit) ==
    /\ p >= 1
    /\ p + Len(lit) - 1 <= Len(text)
    /\ \A i \in 1..Len(lit) : text[p + i - 1] = lit[i]

\* first position >= p whose character does not satisfy the class
RECURSIVE SkipLetters(_, _)
SkipLetters(text, p) ==
    IF p <= Len(text) /\ IsLetter(text[p]) THEN SkipLetters(text, p + 1) ELSE p

RECURSIVE SkipBlanks(_, _)
SkipBlanks(text, p) ==
    IF p <= Len(text) /\ IsBlank(text[p]) THEN SkipBlanks(text, p + 1) ELSE p

RECURSIVE SkipSpace(_, _)
SkipSpace(text, p) ==
    IF p <= Len(text) /\ IsSpace(text[p]) THEN SkipSpace(text, p + 1) ELSE p

\* (?P<lang>[a-z]+)\n at p: the position after the newline, 0 if no match
LangEnd(text, p) ==
    LET q == SkipLetters(text, p)
    IN IF q > p /\ q <= Len(text) /\ text[q] = NL THEN q + 1 ELSE 0

\* (?(block)(?:(?P<lang>[a-z]+)\n)?): the positions the conditional can end
\* at, in the order the matcher tries them (greedy "?": with the tag first)
LangAlwaysStarts(text, d) ==
    IF LangEnd(text, d + 1) # 0 THEN <<LangEnd(text, d + 1), d + 1>> ELSE <<d + 1>>

LangStarts(text, d) ==
    IF d = 3 /\ LangEnd(text, d + 1) # 0
    THEN <<LangEnd(text, d + 1), d + 1>>
    ELSE <<d + 1>>

\* one [ \t]*\n at p: the position after the newline, 0 if no match
BlankLineEnd(text, p) ==
    LET q == SkipBlanks(text, p)
    IN IF q <= Len(text) /\ text[q] = NL THEN q + 1 ELSE 0

\* (?:[ \t]*\n)* from p: the end positions in the order tried (greedy: most
\* blank lines first, then one fewer, ... , none)
RECURSIVE BlankStarts(_, _)
BlankStarts(text, p) ==
    IF BlankLineEnd(text, p) = 0 THEN <<p>>
    ELSE BlankStarts(text, BlankLineEnd(text, p)) \o <<p>>

\* \s*(?P=delim) matches at e: greedy \s* backs off one character at a time
ClosesAt(text, e, d) ==
    \E w \in e..SkipSpace(text, e) : LitAt(text, w, Delim(d))

\* (?P<code>.*?) from start: the lazy body grows until the rest matches;
\* the position after the body, 0 if the rest never matches
CodeEnd(text, start, d) ==
    IF \E e \in start..(Len(text) + 1) : ClosesAt(text, e, d)
    THEN CHOOSE e \in start..(Len(text) + 1) :
            /\ ClosesAt(text, e, d)
            /\ \A f \in start..(e - 1) : ~ClosesAt(text, f, d)
    ELSE 0

\* first element of a sequence of candidate starts that leads to a match
RECURSIVE FirstStart(_, _, _)
FirstStart(text, starts, d) ==
    IF starts = <<>> THEN 0
    ELSE IF CodeEnd(text, Head(starts), d) # 0 THEN Head(starts)
    ELSE FirstStart(text, Tail(starts), d)

\* all candidate body starts for delimiter d, in backtracking order
RECURSIVE Flatten(_)
Flatten(ss) == IF ss = <<>> THEN <<>> ELSE Head(ss) \o Flatten(Tail(ss))

BodyStarts(text, d) ==
    LET ls == LangStarts(text, d)
    IN Flatten([i \in 1..Len(ls) |-> BlankStarts(text, ls[i])])

\* the match with opening delimiter d: [ok, delim, from, to] (body = from..to-1)
NoMatch == [ok |-> FALSE, delim |-> 0, from |-> 0, to |-> 0]

MatchWith(text, d) ==
    IF ~LitAt(text, 1, Delim(d)) THEN NoMatch
    ELSE LET s == FirstStart(text, BodyStarts(text, d), d)
         IN IF s = 0 THEN NoMatch
            ELSE [ok |-> TRUE, delim |-> d, from |-> s, to |-> CodeEnd(text, s, d)]

\* FORMATTED_CODE_REGEX.match(text): anchored at position 1; the delimiter
\* alternatives are tried in the order ```, ``, `
RegexMatch(text) ==
    IF MatchWith(text, 3).ok THEN MatchWith(text, 3)
    ELSE IF MatchWith(text, 2).ok THEN MatchWith(text, 2)
    ELSE MatchWith(text, 1)

_prepare_input(text) ==
    LET m == RegexMatch(text)
    IN IF m.ok THEN SubSeq(text, m.from, m.to - 1) ELSE text

\* ------------------------------------------------------------ the environment
Guilds == {"g1", "g2"}
\* raw command arguments: 1, a, and 1 inside a one-backtick fence
RawInputs == {<<"1">>, <<"a">>, <<BT, "1", BT>>}
\* what the rendering API and the paste service may answer
Filenames == {"f1", "f2"}
Logs == {"boom"}
Images == {"png1", "png2"}
PasteKeys == {"pk"}

NONE == "none"
EMPTY == "empty"

Invs == 1..MaxInv

\* hashlib.md5(query.encode()).hexdigest(): a digest that is a function of
\* the query only and has no collision among the queries of the model
md5hex(query) == [md5 |-> query]

Queries == {_prepare_input(r) : r \in RawInputs}
Keys == {md5hex(q) : q \in Queries}

\* TEMPLATE.substitute(text=query)
TEMPLATE(query) == <<"t", "{">> \o query \o <<"}">>

VARIABLES
    inv,        \* the invocations of the command, in order of arrival
    nInvoked,   \* how many invocations have arrived
    held,       \* per guild: the invocation holding the max_concurrency slot, 0 if free
    waitq,      \* per guild: the invocations waiting for the slot, oldest first
    cache,      \* CACHE_DIRECTORY: per key the inode at <key>.png, 0 if no such file
    content,    \* per inode (named by its creator) the bytes of the file
    posts,      \* per key: the submit calls made to the rendering API
    rendered,   \* per key: the bytes of the first successful render, NONE before
    cleanups,   \* per key: the unlinks done by the logical-failure path
    external,   \* the removals of cache files done from outside the command
    text,       \* input of _prepare_input
    body,       \* its result
    phase       \* "in" before _prepare_input has run, "out" after

vars == <<inv, nInvoked, held, waitq, cache, content, posts, rendered, cleanups,
          external, text, body, phase>>
mainVars == <<inv, nInvoked, held, waitq, cache, content, posts, rendered, cleanups>>
sideVars == <<external, text, body, phase>>

\* the JSON bodies the rendering API answers the submit call with (line 56):
\* a success names the artifact, anything else carries a log
NoResponse == [status |-> NONE, filename |-> NONE, log |-> NONE]
Responses ==
    [status : {"success"}, filename : Filenames, log : {NONE}]
        \cup [status : {"error"}, filename : {NONE}, log : Logs]

NewInv == [pc |-> "new", guild |-> NONE, raw |-> <<>>, query |-> <<>>, key |-> NONE,
           branch |-> NONE, out_file |-> 0, fp |-> 0, payload |-> <<>>,
           response_json |-> NoResponse, fetched |-> NONE, logs |-> NONE, url |-> NONE,
           pastes |-> 0, calls |-> 0, sent |-> <<>>, delivered |-> 0,
           err |-> NONE, answer |-> NONE, sawRendered |-> FALSE, fileLeft |-> FALSE]

MainInit ==
    /\ inv = [i \in Invs |-> NewInv]
    /\ nInvoked = 0
    /\ held = [g \in Guilds |-> 0]
    /\ waitq = [g \in Guilds |-> <<>>]
    /\ cache = [k \in Keys |-> 0]
    /\ content = [i \in Invs |-> NONE]
    /\ posts = [k \in Keys |-> 0]
    /\ rendered = [k \in Keys |-> NONE]
    /\ cleanups = [k \in Keys |-> 0]
    /\ external = 0

Init ==
    /\ MainInit
    /\ text = <<>>
    /\ body = <<>>
    /\ phase = "in"

\* --------------------------------------------------- max_concurrency(1, guild)
\* lines 85-88: the body up to its first suspension point, ctx.typing()
Begin(r, g, raw) ==
    [r EXCEPT !.pc = "typing", !.guild = g, !.raw = raw,
              !.query = _prepare_input(raw),
              !.key = md5hex(_prepare_input(raw))]

\* max_concurrency(1, BucketType.guild, wait=True)
waitFalse == FALSE

wait == TRUE

GateFreeAlways(g) == TRUE

\* the semaphore of the guild has a free slot
GateFree(g) == held[g] = 0

\* an invocation arrives: it takes the slot of its guild if it is free and
\* starts the body, otherwise it is appended to the waiters (wait=True)
Invoke(i, g, raw) ==
    /\ i = nInvoked + 1
    /\ i <= MaxInv
    /\ inv[i].pc = "new"
    /\ nInvoked' = i
    /\ IF GateFree(g)
       THEN /\ held' = [held EXCEPT ![g] = i]
            /\ inv' = [inv EXCEPT ![i] = Begin(@, g, raw)]
            /\ UNCHANGED waitq
       ELSE IF wait
       THEN /\ waitq' = [waitq EXCEPT ![g] = Append(@, i)]
            /\ inv' = [inv EXCEPT ![i] = [@ EXCEPT !.pc = "waiting", !.guild = g, !.raw = raw]]
            /\ UNCHANGED held
       ELSE \* MaxConcurrencyReached: the command is not run
            /\ inv' = [inv EXCEPT ![i] = [@ EXCEPT !.pc = "done", !.guild = g, !.raw = raw,
                                                   !.err = "MaxConcurrencyReached"]]
            /\ UNCHANGED <<held, waitq>>
    /\ UNCHANGED <<cache, content, posts, rendered, cleanups, sideVars>>

\* a woken waiter runs: it takes the slot if it is still free, otherwise it
\* waits again
Wake(i) ==
    /\ inv[i].pc = "woken"
    /\ LET g == inv[i].guild
       IN IF GateFree(g)
          THEN /\ held' = [held EXCEPT ![g] = i]
               /\ inv' = [inv EXCEPT ![i] = Begin(@, g, @.raw)]
               /\ UNCHANGED waitq
          ELSE /\ waitq' = [waitq EXCEPT ![g] = Append(@, i)]
               /\ inv' = [inv EXCEPT ![i].pc = "waiting"]
               /\ UNCHANGED held
    /\ UNCHANGED <<nInvoked, cache, content, posts, rendered, cleanups, sideVars>>

\* an end by exception that keeps the slot
FinishHolding(i, fin) ==
    IF fin.err = NONE
    THEN LET g == inv[i].guild
         IN /\ held' = [held EXCEPT ![g] = 0]
            /\ IF waitq[g] = <<>>
               THEN /\ inv' = [inv EXCEPT ![i] = fin]
                    /\ UNCHANGED waitq
               ELSE /\ inv' = [inv EXCEPT ![i] = fin, ![Head(waitq[g])].pc = "woken"]
                    /\ waitq' = [waitq EXCEPT ![g] = Tail(@)]
    ELSE /\ inv' = [inv EXCEPT ![i] = fin]
         /\ UNCHANGED <<held, waitq>>

\* the invocation i ends (return or exception): the slot of its guild is
\* released and the oldest waiter is woken.  fin is i's final record.
Finish(i, fin) ==
    LET g == inv[i].guild
    IN /\ held' = [held EXCEPT ![g] = 0]
       /\ IF waitq[g] = <<>>
          THEN /\ inv' = [inv EXCEPT ![i] = fin]
               /\ UNCHANGED waitq
          ELSE /\ inv' = [inv EXCEPT ![i] = fin, ![Head(waitq[g])].pc = "woken"]
               /\ waitq' = [waitq EXCEPT ![g] = Tail(@)]

\* the record of an invocation that has ended with e (NONE: it returned): its
\* files are closed and its locals are gone; fileLeft records whether a file
\* was at its cache path when it ended
Ended(r, e, left) ==
    [r EXCEPT !.pc = "done", !.err = e, !.out_file = 0, !.fp = 0, !.payload = <<>>,
              !.response_json = NoResponse, !.fetched = NONE, !.answer = NONE, !.fileLeft = left]

\* ------------------------------------------------------------- Latex.latex
\* Path.exists()
ExistsAlwaysFalse(k) == FALSE

Exists(k) == cache[k] # 0

\* discord.File(image_path, "latex.png") opens the file for reading; the
\* bytes are read when the message is sent
OpenRead(k) == cache[k]

\* lines 89-91 and 103: the cache test and, without a suspension point in
\* between, either discord.File(image_path) or open(image_path, "wb")
CacheCheck(i) ==
    /\ inv[i].pc = "typing"
    /\ LET k == inv[i].key
       IN IF Exists(k)
          THEN /\ inv' = [inv EXCEPT ![i] = [@ EXCEPT !.pc = "send_image", !.branch = "hit",
                                                      !.fp = OpenRead(k),
                                                      !.sawRendered = rendered[k] # NONE]]
               /\ UNCHANGED <<cache, content>>
          ELSE /\ inv' = [inv EXCEPT ![i] = [@ EXCEPT !.pc = "post", !.branch = "miss",
                                                      !.out_file = i,
                                                      !.payload = TEMPLATE(inv[i].query),
                                                      !.sawRendered = rendered[k] # NONE]]
               /\ cache' = [cache EXCEPT ![k] = i]
               /\ content' = [content EXCEPT ![i] = EMPTY]
    /\ UNCHANGED <<nInvoked, held, waitq, posts, rendered, cleanups, sideVars>>

\* a call with raise_for_status=True is answered by a non-success status:
\* the with block of line 91 closes out_file and no except clause matches,
\* so nothing is done to the directory entry
CloseAndUnlink(c, k) == [c EXCEPT ![k] = 0]

CloseOnError(c, k) == c

\* line 58 and lines 38-43: the exception carries the log of the response
InvalidLatexError(response_json) == response_json.log

\* line 60: the artifact is fetched under the filename of the response
GetFixedFilename(response_json) == "f1"

GetFilename(response_json) == response_json.filename

\* lines 54-58: the submit call and the test of the status
Post(i) ==
    /\ inv[i].pc = "post"
    /\ posts' = [posts EXCEPT ![inv[i].key] = @ + 1]
    /\ \/ /\ cache' = CloseOnError(cache, inv[i].key)
          /\ Finish(i, [Ended(inv[i], "transport", cache'[inv[i].key] # 0) EXCEPT !.calls = @ + 1])
          /\ UNCHANGED <<nInvoked, content, rendered, cleanups, sideVars>>
       \/ \E response \in Responses :
             /\ IF response.status # "success"
                THEN \* the exception leaves the with block of line 91, which
                     \* closes out_file, and line 93 catches it
                     inv' = [inv EXCEPT ![i] = [@ EXCEPT !.pc = "paste", !.calls = @ + 1,
                                                        !.response_json = response,
                                                        !.logs = InvalidLatexError(response),
                                                        !.out_file = 0]]
                ELSE inv' = [inv EXCEPT ![i] = [@ EXCEPT !.pc = "get", !.calls = @ + 1,
                                                        !.response_json = response]]
             /\ UNCHANGED <<nInvoked, held, waitq, cache, content, rendered, cleanups, sideVars>>

\* lines 59-64, the end of the with block and line 103 up to the send
Get(i) ==
    /\ inv[i].pc = "get"
    /\ \/ /\ cache' = CloseOnError(cache, inv[i].key)
          /\ Finish(i, [Ended(inv[i], "transport", cache'[inv[i].key] # 0) EXCEPT !.calls = @ + 1])
          /\ UNCHANGED <<nInvoked, content, posts, rendered, cleanups, sideVars>>
       \/ \E b \in Images :
             LET k == inv[i].key
             IN /\ content' = [content EXCEPT ![inv[i].out_file] = b]
                /\ rendered' = [rendered EXCEPT ![k] = IF @ = NONE THEN b ELSE @]
                /\ IF Exists(k)
                   THEN /\ inv' = [inv EXCEPT ![i] = [@ EXCEPT !.pc = "send_image",
                                         !.calls = @ + 1, !.fetched = GetFilename(inv[i].response_json),
                                         !.out_file = 0, !.fp = OpenRead(k)]]
                        /\ UNCHANGED <<held, waitq>>
                   ELSE \* open(image_path, "rb") raises FileNotFoundError
                        Finish(i, [Ended(inv[i], "FileNotFoundError:open", FALSE) EXCEPT !.calls = @ + 1])
                /\ UNCHANGED <<nInvoked, cache, posts, cleanups, sideVars>>

\* lines 66-79 and 94: the paste upload; every exception is swallowed
\* line 76: the URL built from the key of the answer, None without a key
PasteUrl(answer) ==
    CASE answer = "pk" -> "https://paste.pythondiscord.com/pk.txt?noredirect"
      [] OTHER -> NONE

_upload_to_pastebin(i) ==
    /\ inv[i].pc = "paste"
    /\ \E answer \in PasteKeys \cup {"http_error", "no_key"} :
          inv' = [inv EXCEPT ![i] = [@ EXCEPT !.pc = "send_notice", !.pastes = @ + 1,
                                              !.answer = answer,
                                              !.url = PasteUrl(answer)]]
    /\ UNCHANGED <<nInvoked, held, waitq, cache, content, posts, rendered, cleanups, sideVars>>

\* lines 95-99
Embed(url) ==
    [type |-> "notice",
     description |-> IF url # NONE THEN <<"View Logs", url>> ELSE <<"Couldn't upload logs.">>]

\* line 100: ctx.send(embed=embed) is called
NoticeDropped(r) == r

Noticed(r) == [r EXCEPT !.sent = Append(@, Embed(r.url))]

\* line 101: image_path.unlink() removes the directory entry of the path
unlinkAll(c, k) == [p \in DOMAIN c |-> 0]

unlink(c, k) == [c EXCEPT ![k] = 0]

\* lines 100-102: the notice is sent; when the send has returned the cache
\* file is unlinked and the command returns.  A send that raises leaves the
\* command at line 100.
SendNotice(i) ==
    /\ inv[i].pc = "send_notice"
    /\ LET k == inv[i].key
           r == Noticed(inv[i])
       IN \/ /\ Finish(i, Ended(r, "send", Exists(k)))
             /\ UNCHANGED <<cache, cleanups>>
          \/ IF Exists(k)
             THEN /\ cache' = unlink(cache, k)
                  /\ cleanups' = [cleanups EXCEPT ![k] = @ + 1]
                  /\ Finish(i, [Ended(r, NONE, FALSE) EXCEPT !.delivered = @ + 1])
             ELSE \* Path.unlink() raises FileNotFoundError
                  /\ Finish(i, [Ended(r, "FileNotFoundError:unlink", FALSE) EXCEPT !.delivered = @ + 1])
                  /\ UNCHANGED <<cache, cleanups>>
    /\ UNCHANGED <<nInvoked, content, posts, rendered, sideVars>>

\* line 103: the image is sent with the bytes the opened file holds then
SendImage(i) ==
    /\ inv[i].pc = "send_image"
    /\ LET r == [inv[i] EXCEPT !.sent = Append(@, [type |-> "image", bytes |-> content[inv[i].fp]])]
       IN \/ Finish(i, Ended(r, "send", Exists(inv[i].key)))
          \/ Finish(i, [Ended(r, NONE, Exists(inv[i].key)) EXCEPT !.delivered = @ + 1])
    /\ UNCHANGED <<nInvoked, cache, content, posts, rendered, cleanups, sideVars>>

Next ==
    \/ \E i \in Invs, g \in Guilds, raw \in RawInputs : Invoke(i, g, raw)
    \/ \E i \in Invs : Wake(i)
    \/ \E i \in Invs : CacheCheck(i)
    \/ \E i \in Invs : Post(i)
    \/ \E i \in Invs : Get(i)
    \/ \E i \in Invs : _upload_to_pastebin(i)
    \/ \E i \in Invs : SendNotice(i)
    \/ \E i \in Invs : SendImage(i)

Spec == Init /\ [][Next]_vars

\* the inputs of the fair specification: two texts with different hashes
FairInputs == {<<"1">>, <<"a">>}

\* the event loop resumes every coroutine that can run: a woken waiter, and
\* an invocation whose awaited call or send has returned or raised.  No
\* fairness is asked of the arrival of invocations.
Step(i) ==
    \/ Wake(i)
    \/ CacheCheck(i)
    \/ Post(i)
    \/ Get(i)
    \/ _upload_to_pastebin(i)
    \/ SendNotice(i)
    \/ SendImage(i)

NextFair ==
    \/ \E i \in Invs, g \in Guilds, raw \in FairInputs : Invoke(i, g, raw)
    \/ \E i \in Invs : Step(i)

FairSpec == Init /\ [][NextFair]_vars /\ \A i \in Invs : WF_vars(Step(i))

\* -------------------------------------------- the cache directory as a directory
\* CACHE_DIRECTORY is a directory of the file system: a file of it can be
\* removed from outside the command (the directory is cleared by hand)
\* while invocations are in flight.  Only the removals that fall between the
\* upload of the logs and the cleanup (lines 94-101) are followed.
ExternalUnlink(k) ==
    /\ Exists(k)
    /\ \E i \in Invs : inv[i].pc = "send_notice" /\ inv[i].key = k
    /\ external < MaxExternal
    /\ external' = external + 1
    /\ cache' = [cache EXCEPT ![k] = 0]
    /\ UNCHANGED <<inv, nInvoked, held, waitq, content, posts, rendered, cleanups,
                   text, body, phase>>

NextFs ==
    \/ Next
    \/ \E k \in DOMAIN cache : ExternalUnlink(k)

SpecFs == Init /\ [][NextFs]_vars

\* ------------------------------------------------- _prepare_input on its own
Texts == UNION {[1..n -> Alphabet] : n \in 0..MaxLen}

InitNorm ==
    /\ MainInit
    /\ text \in Texts
    /\ body = <<>>
    /\ phase = "in"

\* lines 31-35
Prepare ==
    /\ phase = "in"
    /\ body' = _prepare_input(text)
    /\ phase' = "out"
    /\ UNCHANGED <<text, external, mainVars>>

SpecNorm == InitNorm /\ [][Prepare]_vars

\* ================================================================= properties
Done(i) == inv[i].pc = "done"
InFlight(i) ==
    inv[i].pc \in {"typing", "post", "get", "paste", "send_notice", "send_image"}
\* the command body of i has started: its query and key are computed
Begun(i) ==
    inv[i].pc \notin {"new", "waiting", "woken"} /\ inv[i].err # "MaxConcurrencyReached"
\* the invocations whose body has started with an input of key k
Of(k) == {i \in Invs : Begun(i) /\ inv[i].key = k}
SentImage(i) == inv[i].sent # <<>> /\ inv[i].sent[1].type = "image"
SentNotice(i) == inv[i].sent # <<>> /\ inv[i].sent[1].type = "notice"
LinkNotice(i) == SentNotice(i) /\ inv[i].sent[1].description[1] = "View Logs"
FallbackNotice(i) ==
    SentNotice(i) /\ inv[i].sent[1].description = <<"Couldn't upload logs.">>

\* C1: an invocation never sends more than one response; one that ends
\* without a transport-level error (of the rendering API or of the send) has
\* sent exactly one response, an image or a failure notice, and it was
\* delivered; one that ends with a transport error of the rendering API has
\* sent nothing, and one whose send failed has delivered nothing.
C1_ExactlyOneResponse ==
    \A i \in Invs :
        /\ Len(inv[i].sent) <= 1
        /\ ~Done(i) => inv[i].delivered = 0
        /\ Done(i) /\ inv[i].err \notin {"transport", "send"} =>
              /\ Len(inv[i].sent) = 1
              /\ inv[i].delivered = 1
              /\ SentImage(i) \/ SentNotice(i)
        /\ Done(i) /\ inv[i].err = "transport" =>
              inv[i].sent = <<>> /\ inv[i].delivered = 0
        /\ Done(i) /\ inv[i].err = "send" => inv[i].delivered = 0

\* one invocation has delivered an image, one a failure notice, and one has
\* ended with a transport error of the rendering API
C1_Witness ==
    \E i, j, l \in Invs :
        /\ Done(i) /\ inv[i].err = NONE /\ SentImage(i)
        /\ Done(j) /\ inv[j].err = NONE /\ SentNotice(j)
        /\ Done(l) /\ inv[l].err = "transport"

\* C2: an invocation whose submit call was answered with a status other than
\* "success" ends with no file at its cache path, with exactly one failure
\* notice sent (logs link or could-not-upload text) and with no image sent,
\* whatever the paste upload and the send did.
C2_FailureLeavesNoFile ==
    \A i \in Invs :
        Done(i) /\ inv[i].logs # NONE =>
            /\ ~inv[i].fileLeft
            /\ Len(inv[i].sent) = 1
            /\ LinkNotice(i) \/ FallbackNotice(i)

\* C3: the file of a successful render keeps the rendered bytes for ever; an
\* invocation whose cache test comes after a successful render of its key
\* takes the hit branch, makes no call to the rendering API, and the one
\* response it sends is the image with the bytes of that first render.
C3_CacheRoundTrip ==
    /\ \A k \in DOMAIN cache :
          rendered[k] # NONE => Exists(k) /\ content[cache[k]] = rendered[k]
    /\ \A i \in Invs :
          inv[i].sawRendered =>
              /\ inv[i].branch = "hit"
              /\ inv[i].calls = 0
              /\ Done(i) => Len(inv[i].sent) = 1
              /\ inv[i].sent # <<>> =>
                    inv[i].sent[1] = [type |-> "image", bytes |-> rendered[inv[i].key]]

\* a render of one raw input has succeeded and a later invocation with a
\* different raw input of the same key has sent the rendered bytes
C3_Witness ==
    \E i, j \in Invs :
        /\ Done(i) /\ inv[i].branch = "miss" /\ SentImage(i)
        /\ Done(j) /\ inv[j].sawRendered /\ inv[j].err = NONE
        /\ inv[i].raw # inv[j].raw /\ inv[i].key = inv[j].key
        /\ inv[j].sent[1].bytes \in Images
        /\ inv[j].sent[1].bytes = inv[i].sent[1].bytes

\* the invocations of key k all come from one guild
OneGuild(k) == \A i, j \in Of(k) : inv[i].guild = inv[j].guild

\* C4 as stated: when two or more invocations of one guild with the same
\* input have all ended, exactly one submit call was made for the key and
\* every one of them has sent the same image.  (Taken here only for
\* invocations that met no transport error, of the API or of the send.)
C4_OneRenderSameImage ==
    \A k \in DOMAIN cache :
        (/\ Cardinality(Of(k)) >= 2
         /\ OneGuild(k)
         /\ \A i \in Of(k) : Done(i) /\ inv[i].err = NONE) =>
            /\ posts[k] = 1
            /\ \E b \in Images :
                  \A i \in Of(k) : inv[i].sent = <<[type |-> "image", bytes |-> b]>>

\* C4 amended: among invocations of one guild with the same input, a submit
\* call is made once and once more after each logical failure that removed
\* the file (so exactly once when no render fails logically); an invocation
\* whose own render failed sends no image; all images sent are the same bytes.
C4_OneRenderUnlessFailed ==
    \A k \in DOMAIN cache :
        OneGuild(k) =>
            /\ posts[k] <= 1 + cleanups[k]
            /\ (\E i \in Of(k) : Done(i)) => posts[k] >= 1
            /\ \A i \in Of(k) :
                  (inv[i].logs # NONE \/ inv[i].err = "transport") => ~SentImage(i)
            /\ \A i, j \in Of(k) :
                  SentImage(i) /\ SentImage(j) => inv[i].sent = inv[j].sent

\* three invocations of one guild with the same key have ended, one submit
\* call was made and all three sent the same rendered image
C4_Witness ==
    \E k \in DOMAIN cache :
        /\ Cardinality(Of(k)) = 3 /\ OneGuild(k)
        /\ posts[k] = 1
        /\ \E b \in Images :
              \A i \in Of(k) :
                  Done(i) /\ inv[i].sent = <<[type |-> "image", bytes |-> b]>>

\* C5: a file is at cache/<k>.png only if a render of k has succeeded and
\* the file holds its complete image bytes; in particular the existence test
\* is never true for an empty file.
C5_CacheHoldsOnlyImages ==
    \A k \in DOMAIN cache :
        Exists(k) => rendered[k] # NONE /\ content[cache[k]] \in Images

\* C6: an invocation ended by a non-success HTTP status of the submit or of
\* the artifact call took the miss branch, attempted no paste upload, sent
\* nothing, and the file it created at its cache path is still there when
\* it ends and afterwards.
C6_TransportErrorPropagates ==
    \A i \in Invs :
        Done(i) /\ inv[i].err = "transport" =>
            /\ inv[i].branch = "miss"
            /\ inv[i].pastes = 0
            /\ inv[i].sent = <<>>
            /\ inv[i].delivered = 0
            /\ inv[i].fileLeft
            /\ Exists(inv[i].key)

\* one invocation was ended by the submit call and another by the artifact
\* call, and both left their file behind
C6_Witness ==
    \E i, j \in Invs :
        /\ Done(i) /\ inv[i].err = "transport" /\ inv[i].calls = 1 /\ inv[i].fileLeft
        /\ Done(j) /\ inv[j].err = "transport" /\ inv[j].calls = 2 /\ inv[j].fileLeft

\* C7: the paste upload yields a URL if and only if the service returned a
\* key, and an invocation that attempted the upload ends having sent exactly
\* one failure notice, with the logs link if and only if there was a URL;
\* when there was none the notice has the could-not-upload text and the
\* reserved cache file is removed.
C7_PasteFailureTolerated ==
    \A i \in Invs :
        /\ inv[i].pc = "send_notice" =>
              (inv[i].url # NONE <=> inv[i].answer \in PasteKeys)
        /\ Done(i) /\ inv[i].pastes > 0 =>
              /\ Len(inv[i].sent) = 1
              /\ SentNotice(i)
              /\ LinkNotice(i) <=> inv[i].url # NONE
              /\ inv[i].url = NONE => FallbackNotice(i) /\ ~inv[i].fileLeft

\* C8: per guild at most one invocation is between its start and its end,
\* and it holds the slot of the guild; an invocation that found the slot
\* taken is waiting (queued or just woken), has not been rejected and has
\* made no cache test and no call.
C8_MutualExclusion ==
    /\ \A i, j \in Invs :
          InFlight(i) /\ InFlight(j) /\ inv[i].guild = inv[j].guild => i = j
    /\ \A i \in Invs :
          /\ InFlight(i) => held[inv[i].guild] = i
          /\ inv[i].err # "MaxConcurrencyReached"
          /\ inv[i].pc = "waiting" <=>
                \E g \in Guilds : \E n \in 1..Len(waitq[g]) : waitq[g][n] = i
          /\ inv[i].pc \in {"waiting", "woken"} =>
                inv[i].branch = NONE /\ inv[i].calls = 0 /\ inv[i].sent = <<>>

\* two invocations of different guilds are in flight at once, past their
\* cache test, while a third is queued behind one of them
C8_Witness ==
    \E i, j, l \in Invs :
        /\ InFlight(i) /\ InFlight(j) /\ inv[i].guild # inv[j].guild
        /\ inv[i].branch # NONE /\ inv[j].branch # NONE
        /\ inv[l].pc = "waiting" /\ inv[l].guild = inv[i].guild

\* C9: when no file is at the cache path at the time the logical-failure
\* path removes it, the removal does nothing and the invocation returns
\* normally instead of raising.
C9_UnlinkTolerated ==
    \A i \in Invs : Done(i) => inv[i].err # "FileNotFoundError:unlink"

\* s is a prefix of t
IsPrefix(s, t) == Len(s) <= Len(t) /\ SubSeq(t, 1, Len(s)) = s
\* the text has, right after an opening delimiter of d backticks, a word of
\* letters followed by a newline
HasTag(d) == LangEnd(text, d + 1) # 0
\* that word, and the position of the newline after it
TagWord(d) == SubSeq(text, d + 1, SkipLetters(text, d + 1) - 1)
TagNewline(d) == SkipLetters(text, d + 1)
\* the text with the word after the three opening backticks taken out
WithoutTag == <<BT, BT, BT, NL>> \o SubSeq(text, LangEnd(text, 4), Len(text))

C11_ImageOnlyAfterRender ==
    \A i \in Invs : SentImage(i) => rendered[inv[i].key] # NONE

\* C12: while the paste upload and the sending of the failure notice are in
\* progress the reserved cache path has already been deleted.
C12_DeletedBeforeUpload ==
    \A i \in Invs :
        inv[i].pc \in {"paste", "send_notice"} => ~Exists(inv[i].key)

\* C13: a cache path is open for writing in at most one invocation at a
\* time, whatever the guilds, and the path then names the file that
\* invocation opened; per key the miss branch is taken once, and once more
\* only after each removal of the file by the logical-failure path.
C13_SingleWriter ==
    /\ \A i, j \in Invs :
          (inv[i].out_file # 0 /\ inv[j].out_file # 0 /\ inv[i].key = inv[j].key) => i = j
    /\ \A i \in Invs : inv[i].out_file # 0 => cache[inv[i].key] = inv[i].out_file
    /\ \A k \in DOMAIN cache :
          Cardinality({i \in Of(k) : inv[i].branch = "miss"}) <= 1 + cleanups[k]

\* an invocation holds the path open for writing while an invocation of
\* another guild with the same key is in flight on the hit branch
C13_Witness ==
    \E i, j \in Invs :
        /\ inv[i].out_file # 0
        /\ InFlight(j) /\ inv[j].branch = "hit"
        /\ inv[i].guild # inv[j].guild
        /\ inv[i].key = inv[j].key

\* C14: from the creation of the file by open(image_path, "wb") to the
\* unlink of the logical-failure path the cache path names the file the
\* invocation created, so the unlink finds it and never raises.
C14_FileExistsAtCleanup ==
    \A i \in Invs :
        /\ inv[i].pc \in {"post", "get", "paste", "send_notice"} =>
              Exists(inv[i].key) /\ cache[inv[i].key] = i
        /\ inv[i].err # "FileNotFoundError:unlink"

\* a logical failure has sent its notice and removed its file although an
\* invocation of another guild with the same key had taken the hit branch
C14_Witness ==
    \E i, j \in Invs :
        /\ Done(i) /\ inv[i].logs # NONE /\ inv[i].err = NONE /\ ~inv[i].fileLeft
        /\ Done(j) /\ inv[j].branch = "hit"
        /\ inv[i].guild # inv[j].guild
        /\ inv[i].key = inv[j].key
        /\ ~Exists(inv[i].key)

\* C16: within one render the artifact is fetched only after the submit call
\* has returned with status "success", under the filename of that response;
\* after any other status no second call is made, the output file stays
\* empty and the failure carries the log of the response.
C16_RenderProtocolOrder ==
    \A i \in Invs :
        /\ inv[i].pc = "get" =>
              /\ inv[i].response_json.status = "success"
              /\ inv[i].calls = 1 /\ inv[i].fetched = NONE /\ inv[i].logs = NONE
        /\ inv[i].fetched # NONE =>
              /\ inv[i].response_json.status = "success"
              /\ inv[i].fetched = inv[i].response_json.filename
              /\ inv[i].calls = 2 /\ inv[i].logs = NONE
        /\ inv[i].pc \in {"paste", "send_notice"} =>
              /\ inv[i].response_json.status # "success"
              /\ inv[i].logs = inv[i].response_json.log
              /\ inv[i].fetched = NONE
        /\ inv[i].logs # NONE => inv[i].calls = 1 /\ content[i] = EMPTY
        /\ inv[i].calls = 2 => inv[i].logs = NONE

\* one render has fetched the artifact under the second filename while
\* another render has failed with the log of its response
C16_Witness ==
    \E i, j \in Invs :
        /\ inv[i].pc = "send_image" /\ inv[i].branch = "miss"
        /\ inv[i].fetched = "f2" /\ content[i] \in Images
        /\ inv[j].pc = "send_notice" /\ inv[j].logs = "boom"

\* the invocation i takes a step of the command body
Acts(i) == InFlight(i) /\ inv'[i] # inv[i]

\* C17: a step changes the directory entry of a cache path, or the bytes of a
\* file, only as a step of an invocation on the miss branch for the key of
\* that path and on the file that invocation created; a step of an invocation
\* on the hit branch leaves the cache directory unchanged, and such an
\* invocation makes no call to the rendering API or to the paste service.
C17_Frame ==
    [][/\ \A k \in DOMAIN cache :
             cache'[k] # cache[k] =>
                 \E i \in Invs : Acts(i) /\ inv'[i].branch = "miss" /\ inv[i].key = k
       /\ \A n \in Invs :
             content'[n] # content[n] =>
                 /\ Acts(n) /\ inv'[n].branch = "miss"
                 /\ cache'[inv[n].key] = n
       /\ \A i \in Invs :
             (Acts(i) /\ inv'[i].branch = "hit") =>
                 /\ cache' = cache /\ content' = content
                 /\ posts' = posts /\ rendered' = rendered
                 /\ inv'[i].calls = 0 /\ inv'[i].pastes = 0]_vars

\* an invocation has failed and removed the file of its own key while the
\* rendered file of another key, served to an invocation on the hit
\* branch, is still in the cache
C17_Witness ==
    \E h, f \in Invs :
        /\ Done(h) /\ inv[h].branch = "hit" /\ inv[h].calls = 0
        /\ Done(f) /\ inv[f].logs # NONE /\ inv[f].err = NONE
        /\ inv[f].key # inv[h].key
        /\ ~Exists(inv[f].key) /\ cleanups[inv[f].key] = 1
        /\ Exists(inv[h].key) /\ content[cache[inv[h].key]] \in Images

====
